---------------------------- MODULE Spec2Model ----------------------------
(***************************************************************************)
(* Model of VTIL-SymEx/directives/transformer.cpp: the directive           *)
(* translator `translate` and the rewrite driver `transform`.              *)
(*                                                                         *)
(* Expressions and directives are structural values.  A translate call     *)
(* returns an outcome record carrying, next to the returned reference,     *)
(* the heap of shared nodes after the call and a log of what the call did  *)
(* (directive nodes visited, expression nodes constructed, simplifier      *)
(* invocations), so that the order and the frame of the calls can be       *)
(* stated.                                                                 *)
(***************************************************************************)
EXTENDS Integers, Sequences, FiniteSets, TLC

\* Literal constants of the rule templates range over 0..MaxLit.
MaxLit == 1
\* The matcher yields at most MaxCandidates symbol tables per call.
MaxCandidates == 2
\* Bit widths of input expressions range over 1..MaxWidth.
MaxWidth == 2

(***************************************************************************)
(* Expression nodes (external primitive).                                  *)
(***************************************************************************)
NoExpr == [k |-> "nil"]

Mask(sz) == 2 ^ sz - 1

Const(v, sz) == [k |-> "const", v |-> v % (2 ^ sz), sz |-> sz, hint |-> FALSE]

Var(id, sz) == [k |-> "var", id |-> id, sz |-> sz, hint |-> FALSE]

MkOp(op, l, r, sz) == [k |-> "op", op |-> op, l |-> l, r |-> r, sz |-> sz, hint |-> FALSE]

\* static const expression::reference dummy_expression = expression{ { "@dummmy" }, 1 };
dummy_expression == Var("@dummmy", 1)

\* Result of get() on an expression whose value is not statically known.
Unknown == 0 - 1

\* Value of a constant of width sz resized to width nsz.
ResizeValue(v, sz, nsz, signed) ==
    IF signed /\ nsz > sz /\ sz > 0 /\ v >= 2 ^ (sz - 1)
    THEN v + (2 ^ nsz - 2 ^ sz)
    ELSE v % (2 ^ nsz)

RECURSIVE Eval(_)
\* The statically known value of an expression, Unknown when some leaf is symbolic.
Eval(e) ==
    CASE e.k = "const" -> e.v
      [] e.k = "var" -> Unknown
      [] e.k = "op" ->
            LET r == Eval(e.r)
                l == IF e.l = NoExpr THEN 0 ELSE Eval(e.l)
            IN IF l = Unknown THEN Unknown
               ELSE IF e.op \in {"cast", "ucast"}
                    THEN ResizeValue(l, e.l.sz, e.sz, e.op = "cast")
               ELSE IF r = Unknown THEN Unknown
               ELSE CASE e.op = "add" -> (l + r) % (2 ^ e.sz)
                      [] e.op = "eq" -> IF l = r THEN 1 ELSE 0
                      [] e.op = "not" -> Mask(e.sz) - (r % (2 ^ e.sz))
                      [] OTHER -> Unknown
      [] OTHER -> Unknown

get(e) == Eval(e)

unknown_mask(e) == IF Eval(e) = Unknown THEN Mask(e.sz) ELSE 0

known_one(e) == IF Eval(e) = Unknown THEN 0 ELSE Eval(e)

known_zero(e) == IF Eval(e) = Unknown THEN 0 ELSE Mask(e.sz) - Eval(e)

\* expression::make( lhs, op, rhs ) and expression::make( op, rhs ).
make(lhs, op, rhs) ==
    MkOp(op, lhs, rhs, IF op = "eq" THEN 1 ELSE IF lhs = NoExpr THEN rhs.sz ELSE lhs.sz)

\* expression::resize( new_size, signed_cast ): the new content of the node.
Resize(e, nsz, signed) ==
    IF e.k = "const" THEN [e EXCEPT !.v = ResizeValue(e.v, e.sz, nsz, signed), !.sz = nsz]
    ELSE IF e.sz = nsz THEN e
    ELSE MkOp(IF signed THEN "cast" ELSE "ucast", e, Const(nsz, nsz + 1), nsz)

RECURSIVE Fold(_)
\* The simplifier's canonical form: constant subterms are folded.
Fold(e) ==
    IF e.k # "op" THEN e
    ELSE IF Eval(e) # Unknown THEN Const(Eval(e), e.sz)
    ELSE [e EXCEPT !.l = IF e.l = NoExpr THEN NoExpr ELSE Fold(e.l), !.r = Fold(e.r)]

\* simplify_expression( exp ): whether it simplified, and the node it leaves in exp.
simplify_expression(e) ==
    IF e.hint \/ e.k # "op" THEN [ok |-> FALSE, val |-> e]
    ELSE [ok |-> Fold(e) # e, val |-> [Fold(e) EXCEPT !.hint = TRUE]]

RECURSIVE Subterms(_)
Subterms(e) ==
    IF e.k # "op" THEN {e}
    ELSE {e} \cup Subterms(e.r) \cup (IF e.l = NoExpr THEN {} ELSE Subterms(e.l))

(***************************************************************************)
(* Directive trees (external primitive).                                   *)
(***************************************************************************)
NoDir == [op |-> "null"]

DConst(v) == [op |-> "invalid", id |-> "", val |-> v, l |-> NoDir, r |-> NoDir]

DVar(id) == [op |-> "invalid", id |-> id, val |-> 0, l |-> NoDir, r |-> NoDir]

DUn(op, r) == [op |-> op, id |-> "", val |-> 0, l |-> NoDir, r |-> r]

DBin(op, l, r) == [op |-> op, id |-> "", val |-> 0, l |-> l, r |-> r]

\* dir->op < math::operator_id::max
ExprOps == {"add", "eq", "not", "cast", "ucast"}

CastOps == {"cast", "ucast"}

\* The values of directive_op_desc handled by the switch, and one that is not.
MetaUnary == {"simplify", "try_simplify", "mask_unknown", "mask_one", "mask_zero",
              "unreachable", "warning", "bad"}

MetaBinary == {"or_also", "iff"}

(***************************************************************************)
(* Shared nodes.  The heap holds the nodes other owners reference: the     *)
(* nodes of the input expression that symbol tables bind, and the static   *)
(* dummy.  A reference is the id of a heap node or "fresh", a node the     *)
(* call alone references.                                                  *)
(***************************************************************************)
BoundIds == {"n1", "n2"}

NodeIds == BoundIds \cup {"dummy"}

PatVars == {"x", "w"}

\* symbol_table_t: every pattern variable of the rule is bound by the matcher.
SymbolTables == [PatVars -> BoundIds]

\* The outcome of a call: "ok" (a non-null reference), "null" or "fatal".
Enter(h) ==
    [out |-> "ok", val |-> NoExpr, ref |-> "none", heap |-> h, calls |-> {}, made |-> 0, simp |-> 0]

\* b was called after a: b started from a's heap, the logs add up.
Then(a, b) ==
    [b EXCEPT !.calls = a.calls \cup @, !.made = a.made + @, !.simp = a.simp + @]

Log(me, r) == [r EXCEPT !.calls = @ \cup {me}]

Null(r) == [r EXCEPT !.out = "null", !.val = NoExpr, !.ref = "none"]

\* error( ... ) and unreachable() do not return.
Fatal(r) == [r EXCEPT !.out = "fatal", !.val = NoExpr, !.ref = "none"]

Ret(r, e, ref) == [r EXCEPT !.out = "ok", !.val = e, !.ref = ref]

Fresh(r, e) == [Ret(r, e, "fresh") EXCEPT !.made = @ + 1]

\* reference::own(), operator+: a shared node is copied before it is written.
own(r) == IF r.ref = "fresh" THEN r ELSE [r EXCEPT !.ref = "fresh", !.made = @ + 1]

\* A write through the reference r changes the node r refers to.
write(r, e) ==
    IF r.ref \in NodeIds THEN [r EXCEPT !.val = e, !.heap = [@ EXCEPT ![r.ref] = e]]
    ELSE [r EXCEPT !.val = e]

\* The node the reference r refers to, in heap h.
Deref(h, r) == IF r.ref \in NodeIds THEN h[r.ref] ELSE r.val

\* simplify_expression( e1 ) on the reference e1.
simplify_ref(r) ==
    LET s == simplify_expression(r.val)
        c == [r EXCEPT !.simp = @ + 1]
    IN [ok |-> s.ok, res |-> IF s.val = r.val THEN c ELSE write(own(c), s.val)]

(***************************************************************************)
(* translate, by directive shape.  Each operator below takes the outcomes  *)
(* of the recursive calls (evaluated only where the code makes the call).  *)
(***************************************************************************)

\* if ( !dir->id ) return expression{ dir->get().value(), bit_cnt };
leaf_constant(h, dir, bit_cnt) == Fresh(Enter(h), Const(dir.val, bit_cnt))

\* else return sym.translate( dir );
leaf_variable(h, sym, dir) == Ret(Enter(h), h[sym[dir.id]], sym[dir.id])

\* Variant: the recursive calls are always made speculatively.
child_flag_always_set(speculative_condition) == TRUE

\* The flag the ordinary recursive calls pass on.
child_flag(speculative_condition) == speculative_condition

\* translate( sym, dir->rhs, bit_cnt, false ) of simplify.
simplify_flag == FALSE

\* translate( sym, dir->lhs, bit_cnt, false ) of iff.
iff_condition_flag == FALSE

\* Speculative branch of an expression operator; lhs is Enter(h) when dir->lhs is null.
speculative_operator(lhs, rhs) ==
    IF lhs.out = "fatal" THEN Fatal(lhs)
    ELSE IF lhs.out = "null" THEN Null(lhs)
    ELSE LET b == Then(lhs, rhs)
         IN IF rhs.out = "fatal" THEN Fatal(b)
            ELSE IF rhs.out = "null" THEN Null(b)
            ELSE Ret(b, b.heap["dummy"], "dummy")

\* Variant: lhs->resize( ... ) without taking ownership first.
cast_operator_in_place(op, lhs, rhs) ==
    IF lhs.out = "fatal" THEN Fatal(lhs)
    ELSE IF lhs.out = "null" THEN Null(lhs)
    ELSE LET b == Then(lhs, rhs)
         IN IF rhs.out = "fatal" THEN Fatal(b)
            ELSE IF rhs.out = "null" THEN Null(b)
            ELSE IF get(rhs.val) # Unknown
                 THEN LET o == Ret(b, Deref(b.heap, lhs), lhs.ref)
                      IN write(o, Resize(o.val, get(rhs.val), op = "cast"))
                 ELSE Fatal(b)

\* Committing cast / ucast.
cast_operator(op, lhs, rhs) ==
    IF lhs.out = "fatal" THEN Fatal(lhs)
    ELSE IF lhs.out = "null" THEN Null(lhs)
    ELSE LET b == Then(lhs, rhs)
         IN IF rhs.out = "fatal" THEN Fatal(b)
            ELSE IF rhs.out = "null" THEN Null(b)
            ELSE IF get(rhs.val) # Unknown
                 THEN LET o == own(Ret(b, Deref(b.heap, lhs), lhs.ref))
                      IN write(o, Resize(o.val, get(rhs.val), op = "cast"))
                 ELSE Fatal(b)

\* Committing binary operator.
binary_operator(op, lhs, rhs) ==
    IF lhs.out = "fatal" THEN Fatal(lhs)
    ELSE IF lhs.out = "null" THEN Null(lhs)
    ELSE LET b == Then(lhs, rhs)
         IN IF rhs.out = "fatal" THEN Fatal(b)
            ELSE IF rhs.out = "null" THEN Null(b)
            ELSE Fresh(b, make(lhs.val, op, rhs.val))

\* Committing unary operator.
unary_operator(op, rhs) ==
    IF rhs.out = "fatal" THEN Fatal(rhs)
    ELSE IF rhs.out = "null" THEN Null(rhs)
    ELSE Fresh(rhs, make(NoExpr, op, rhs.val))

\* case directive_op_desc::simplify
simplify_directive(e1) ==
    IF e1.out = "fatal" THEN Fatal(e1)
    ELSE IF e1.out = "null" THEN Null(e1)
    ELSE IF e1.val.hint THEN Null(e1)
    ELSE LET s == simplify_ref(e1)
         IN IF s.ok THEN s.res ELSE Null(s.res)

\* Variant: the simplifier runs whatever the flag.
try_simplify_always(e1, speculative_condition) ==
    IF e1.out = "fatal" THEN Fatal(e1)
    ELSE IF e1.out = "null" THEN Null(e1)
    ELSE simplify_ref(e1).res

\* case directive_op_desc::try_simplify
try_simplify_directive(e1, speculative_condition) ==
    IF e1.out = "fatal" THEN Fatal(e1)
    ELSE IF e1.out = "null" THEN Null(e1)
    ELSE IF ~speculative_condition THEN simplify_ref(e1).res
    ELSE e1

\* Variant: the right alternative is tried first.
or_also_right_first(e1, e2) ==
    LET r == [e2 EXCEPT !.heap = e1.heap]
    IN IF e2.out = "fatal" THEN Fatal(r)
       ELSE IF e2.out = "ok" THEN r
       ELSE IF e1.out = "fatal" THEN Fatal(Then(r, e1))
       ELSE IF e1.out = "ok" THEN Then(r, e1)
       ELSE Null(Then(r, e1))

\* Variant: a fatal left alternative is taken as a failed one.
or_also_swallowing(e1, e2) ==
    IF e1.out = "ok" THEN e1
    ELSE LET b == Then(e1, e2)
         IN IF e2.out = "fatal" THEN Fatal(b)
            ELSE IF e2.out = "ok" THEN b
            ELSE Null(b)

\* case directive_op_desc::or_also
or_also_directive(e1, e2) ==
    IF e1.out = "fatal" THEN Fatal(e1)
    ELSE IF e1.out = "ok" THEN e1
    ELSE LET b == Then(e1, e2)
         IN IF e2.out = "fatal" THEN Fatal(b)
            ELSE IF e2.out = "ok" THEN b
            ELSE Null(b)

\* Variant: value_or( true ), an unknown condition counts as met.
condition_met_by_default(condition_status) ==
    LET o == own(condition_status)
        s == write([o EXCEPT !.simp = @ + 1], [Fold(o.val) EXCEPT !.hint = TRUE])
        v == get(s.val)
    IN [met |-> v # 0, res |-> s]

\* ( +condition_status )->simplify().get().value_or( false )
condition_met(condition_status) ==
    LET o == own(condition_status)
        s == write([o EXCEPT !.simp = @ + 1], [Fold(o.val) EXCEPT !.hint = TRUE])
        v == get(s.val)
    IN [met |-> v # Unknown /\ v # 0, res |-> s]

\* case directive_op_desc::iff; rhs starts from the heap condition_met leaves.
iff_directive(condition_status, rhs) ==
    IF condition_status.out = "fatal" THEN Fatal(condition_status)
    ELSE IF condition_status.out = "null" THEN Null(condition_status)
    ELSE LET c == condition_met(condition_status)
         IN IF ~c.met THEN Null(c.res)
            ELSE Then(c.res, rhs)

\* case directive_op_desc::mask_unknown, mask_one, mask_zero
mask_directive(op, exp) ==
    IF exp.out = "fatal" THEN Fatal(exp)
    ELSE IF exp.out = "null" THEN Null(exp)
    ELSE Fresh(exp, Const(CASE op = "mask_unknown" -> unknown_mask(exp.val)
                            [] op = "mask_one" -> known_one(exp.val)
                            [] OTHER -> known_zero(exp.val),
                          exp.val.sz))

\* case directive_op_desc::unreachable: error( "Directive-time assertation failure!\n" );
unreachable_directive(h) == Fatal(Enter(h))

\* case directive_op_desc::warning
warning_directive(rhs) == rhs

\* default: unreachable();
default_directive(h) == Fatal(Enter(h))

RECURSIVE translate(_, _, _, _, _, _)
\* translate( sym, dir, bit_cnt, speculative_condition ) called in heap h; path is
\* the position of dir in the tree of the outermost call.
translate(h, sym, dir, bit_cnt, speculative_condition, path) ==
    LET me == <<path, speculative_condition>>
        L(flag, hh) == translate(hh, sym, dir.l, bit_cnt, flag, Append(path, "l"))
        R(flag, hh) == translate(hh, sym, dir.r, bit_cnt, flag, Append(path, "r"))
        spec == child_flag(speculative_condition)
    IN Log(me,
        CASE dir.op = "invalid" ->
                IF dir.id = "" THEN leaf_constant(h, dir, bit_cnt)
                ELSE leaf_variable(h, sym, dir)
          [] dir.op \in ExprOps /\ speculative_condition ->
                LET lhs == IF dir.l # NoDir THEN L(TRUE, h) ELSE Enter(h)
                IN speculative_operator(lhs, R(TRUE, lhs.heap))
          [] dir.op \in CastOps /\ ~speculative_condition ->
                LET lhs == L(spec, h)
                IN cast_operator(dir.op, lhs, R(spec, lhs.heap))
          [] dir.op \in ExprOps \ CastOps /\ ~speculative_condition /\ dir.l # NoDir ->
                LET lhs == L(spec, h)
                IN binary_operator(dir.op, lhs, R(spec, lhs.heap))
          [] dir.op \in ExprOps \ CastOps /\ ~speculative_condition /\ dir.l = NoDir ->
                unary_operator(dir.op, R(spec, h))
          [] dir.op = "simplify" -> simplify_directive(R(simplify_flag, h))
          [] dir.op = "try_simplify" -> try_simplify_directive(R(spec, h), speculative_condition)
          [] dir.op = "or_also" ->
                LET e1 == L(spec, h)
                IN or_also_directive(e1, R(spec, e1.heap))
          [] dir.op = "iff" ->
                LET c == L(iff_condition_flag, h)
                IN iff_directive(c, R(spec, condition_met(c).res.heap))
          [] dir.op \in {"mask_unknown", "mask_one", "mask_zero"} ->
                mask_directive(dir.op, R(spec, h))
          [] dir.op = "unreachable" -> unreachable_directive(h)
          [] dir.op = "warning" -> warning_directive(R(spec, h))
          [] OTHER -> default_directive(h))

(***************************************************************************)
(* The rules, candidates and filters the calls are made with.              *)
(***************************************************************************)
Leaves == {DConst(v) : v \in 0..MaxLit} \cup {DVar(id) : id \in PatVars}

Depth1 ==
    {DUn(op, a) : op \in MetaUnary \cup {"not"}, a \in Leaves}
    \cup {DBin(op, a, b) : op \in (ExprOps \ {"not"}) \cup MetaBinary, a \in Leaves, b \in Leaves}

\* One template per behaviour: shared and fresh results, failing, fatal and guarded ones.
Kernel ==
    {DVar("x"), DConst(1), DUn("unreachable", DVar("x")), DUn("simplify", DVar("x")),
     DBin("cast", DVar("x"), DVar("w")), DBin("iff", DVar("w"), DVar("x")),
     DBin("add", DVar("x"), DConst(1)), DUn("mask_unknown", DVar("w")),
     DUn("try_simplify", DVar("x")), DBin("eq", DVar("w"), DConst(1))}

Depth2 ==
    {DUn(op, a) : op \in MetaUnary \cup {"not"}, a \in Kernel}
    \cup {DBin(op, a, b) : op \in {"add", "cast"} \cup MetaBinary, a \in Kernel, b \in Kernel}

\* is-constant(width) of the rule tables: the unknown mask of width is zero.
IsConstant(d) == DBin("eq", DUn("mask_unknown", d), DConst(0))

\* conditional(is-constant(width), try-simplify(cast(x, width)))
GuardedCast ==
    DBin("iff", IsConstant(DVar("w")), DUn("try_simplify", DBin("cast", DVar("x"), DVar("w"))))

Directives == Leaves \cup Depth1 \cup Depth2 \cup {GuardedCast}

\* The templates transform is called with.
Templates ==
    Kernel \cup {GuardedCast}
    \cup {DBin(op, a, b) : op \in MetaBinary, a \in Kernel, b \in {DVar("x"), DConst(1)}}

RECURSIVE SeqsUpTo(_, _)
\* The sequences without repetition of at most n elements of S.
SeqsUpTo(S, n) ==
    IF n = 0 THEN {<<>>}
    ELSE LET shorter == SeqsUpTo(S, n - 1)
         IN shorter \cup {Append(s, x) : s \in {t \in shorter : Len(t) = n - 1},
                                          x \in S}

NoRepeat(s) == \A i, j \in 1..Len(s) : i # j => s[i] # s[j]

\* fast_match( &results, from, exp ): any ordered sequence of distinct symbol tables.
MatchResults == {s \in SeqsUpTo(SymbolTables, MaxCandidates) : NoRepeat(s)}

\* expression_filter_t; "none" is the empty std::function.
Filters == {"none", "any", "leaf"}

FilterAccepts(f, e) == f = "any" \/ e.k # "op"

(***************************************************************************)
(* The calls.                                                              *)
(***************************************************************************)
VARIABLES heap, pc, to, results, filter, bit_cnt, idx, last, ret, trace

vars == <<heap, pc, to, results, filter, bit_cnt, idx, last, ret, trace>>

NoCall == [out |-> "none", val |-> NoExpr, ref |-> "none", calls |-> {}, made |-> 0, simp |-> 0]

NoReturn == [out |-> "none", val |-> NoExpr]

\* What is kept of the outcome of a translate call.
Outcome(r) ==
    [out |-> r.out, val |-> r.val, ref |-> r.ref, calls |-> r.calls, made |-> r.made,
     simp |-> r.simp]

\* The input expression: an addition over the two nodes the symbol tables bind.
InputExpression(h) == MkOp("add", h["n1"], h["n2"], h["n1"].sz)

InitialHeap(w) ==
    [n \in NodeIds |-> CASE n = "n1" -> Const(1, w)
                         [] n = "n2" -> Var("a", w)
                         [] OTHER -> dummy_expression]

Init ==
    /\ heap \in {InitialHeap(w) : w \in 1..MaxWidth}
    /\ pc = "idle"
    /\ to = NoDir
    /\ results = <<>>
    /\ filter = "none"
    /\ bit_cnt = 0
    /\ idx = 0
    /\ last = NoCall
    /\ ret = NoReturn
    /\ trace = <<>>

\* if ( filter )
filter_given(f) == f # "none"

\* Variant: the filter's verdict is ignored.
filtered_accepts_unfiltered(r, f) == r.out = "ok"

\* if ( auto exp_new = translate( match, to, exp->size() ) ) if ( filter( exp_new ) )
filtered_accepts(r, f) == r.out = "ok" /\ FilterAccepts(f, r.val)

\* Variant: a failed probe does not skip the candidate.
probe_passes_always(r) == TRUE

\* if ( !translate( match, to, exp->size(), true ) ) continue;
probe_passes(r) == r.out = "ok"

\* A direct call translate( sym, dir, bit_cnt, speculative_condition ), at the width
\* of the input expression.
CallTranslate(sym, dir, speculative_condition) ==
    /\ pc = "idle"
    /\ LET r == translate(heap, sym, dir, InputExpression(heap).sz, speculative_condition, <<>>)
       IN /\ heap' = r.heap
          /\ last' = Outcome(r)
          /\ ret' = [out |-> CASE r.out = "ok" -> "expr" [] r.out = "null" -> "absent"
                               [] OTHER -> "fatal",
                     val |-> r.val]
          /\ trace' = <<<<IF speculative_condition THEN "probe" ELSE "commit", 1, r.out>>>>
    /\ pc' = "translated"
    /\ to' = dir
    /\ results' = <<sym>>
    /\ bit_cnt' = InputExpression(heap).sz
    /\ idx' = 1
    /\ UNCHANGED filter

\* transform( exp, from, to, filter ) up to the loops: the match.
TransformMatch(dir, res, f) ==
    /\ pc = "idle"
    /\ to' = dir
    /\ results' = res
    /\ filter' = f
    /\ bit_cnt' = InputExpression(heap).sz
    /\ idx' = 1
    /\ IF Len(res) = 0
       THEN pc' = "done" /\ ret' = [out |-> "absent", val |-> NoExpr]
       ELSE pc' = (IF filter_given(f) THEN "filtered" ELSE "probe") /\ ret' = NoReturn
    /\ UNCHANGED <<heap, last, trace>>

\* One iteration of the loop of the filtered path.
FilteredIteration ==
    /\ pc = "filtered"
    /\ idx <= Len(results)
    /\ LET r == translate(heap, results[idx], to, bit_cnt, FALSE, <<>>)
           t == Append(trace, <<"commit", idx, r.out>>)
       IN /\ heap' = r.heap
          /\ last' = Outcome(r)
          /\ IF r.out = "fatal"
             THEN /\ pc' = "done"
                  /\ ret' = [out |-> "fatal", val |-> NoExpr]
                  /\ trace' = t
                  /\ UNCHANGED idx
             ELSE /\ trace' = IF r.out = "ok"
                              THEN Append(t, <<"filter", idx,
                                              IF FilterAccepts(filter, r.val) THEN "accept"
                                              ELSE "reject">>)
                              ELSE t
                  /\ IF filtered_accepts(r, filter)
                     THEN pc' = "done" /\ ret' = [out |-> "expr", val |-> r.val]
                          /\ UNCHANGED idx
                     ELSE idx' = idx + 1 /\ UNCHANGED <<pc, ret>>
    /\ UNCHANGED <<to, results, filter, bit_cnt>>

\* The speculative probe of one iteration of the unfiltered path.
Probe ==
    /\ pc = "probe"
    /\ idx <= Len(results)
    /\ LET r == translate(heap, results[idx], to, bit_cnt, TRUE, <<>>)
       IN /\ heap' = r.heap
          /\ last' = Outcome(r)
          /\ trace' = Append(trace, <<"probe", idx, r.out>>)
          /\ IF r.out = "fatal"
             THEN pc' = "done" /\ ret' = [out |-> "fatal", val |-> NoExpr] /\ UNCHANGED idx
             ELSE IF probe_passes(r)
                  THEN pc' = "commit" /\ UNCHANGED <<idx, ret>>
                  ELSE idx' = idx + 1 /\ UNCHANGED <<pc, ret>>
    /\ UNCHANGED <<to, results, filter, bit_cnt>>

\* The translation after a probe that passed: fassert( exp_new ); return exp_new;
Commit ==
    /\ pc = "commit"
    /\ LET r == translate(heap, results[idx], to, bit_cnt, FALSE, <<>>)
       IN /\ heap' = r.heap
          /\ last' = Outcome(r)
          /\ trace' = Append(trace, <<"commit", idx, r.out>>)
          /\ ret' = IF r.out = "ok" THEN [out |-> "expr", val |-> r.val]
                    ELSE [out |-> "fatal", val |-> NoExpr]
    /\ pc' = "done"
    /\ UNCHANGED <<to, results, filter, bit_cnt, idx>>

\* Every candidate was tried: return {};
Exhausted ==
    /\ pc \in {"filtered", "probe"}
    /\ idx > Len(results)
    /\ pc' = "done"
    /\ ret' = [out |-> "absent", val |-> NoExpr]
    /\ UNCHANGED <<heap, to, results, filter, bit_cnt, idx, last, trace>>

\* The call is over; the heap stays for the next one.
Return ==
    /\ pc \in {"done", "translated"}
    /\ pc' = "idle"
    /\ to' = NoDir
    /\ results' = <<>>
    /\ filter' = "none"
    /\ bit_cnt' = 0
    /\ idx' = 0
    /\ last' = NoCall
    /\ ret' = NoReturn
    /\ trace' = <<>>
    /\ UNCHANGED heap

Next ==
    \/ \E sym \in SymbolTables, dir \in Directives, s \in BOOLEAN :
           CallTranslate(sym, dir, s)
    \/ \E dir \in Templates, res \in MatchResults, f \in Filters : TransformMatch(dir, res, f)
    \/ FilteredIteration
    \/ Probe
    \/ Commit
    \/ Exhausted
    \/ Return

Spec == Init /\ [][Next]_vars

TypeOK ==
    /\ pc \in {"idle", "translated", "filtered", "probe", "commit", "done"}
    /\ ret.out \in {"none", "expr", "absent", "fatal"}
    /\ last.out \in {"none", "ok", "null", "fatal"}

(***************************************************************************)
(* Properties.                                                             *)
(***************************************************************************)
\* The state after a direct translate call, and its flag.
Translated == pc = "translated"

Speculative == Translated /\ trace[1][1] = "probe"

Committing == Translated /\ trace[1][1] = "commit"

\* The finished transform calls, by path.
Filtered == pc = "done" /\ filter # "none"

Unfiltered == pc = "done" /\ filter = "none"

\* translate of the current template under candidate i, from the current heap.
Under(i, flag) == translate(heap, results[i], to, bit_cnt, flag, <<>>)

\* translate of a child of the current template under the only candidate.
Child(dir, side, flag) == translate(heap, results[1], dir, bit_cnt, flag, <<side>>)

Succeeds(r) == r.out = "ok"

Fails(r) == r.out = "null"

RECURSIVE DirAt(_, _)
\* The directive at a position of the tree d.
DirAt(d, path) ==
    IF path = <<>> THEN d
    ELSE DirAt(IF Head(path) = "l" THEN d.l ELSE d.r, Tail(path))

\* The positions a call visited at or below a child of the root.
VisitedBelow(calls, side) == {c \in calls : Len(c[1]) > 0 /\ c[1][1] = side}

Accepted(i) == Succeeds(Under(i, FALSE)) /\ FilterAccepts(filter, Under(i, FALSE).val)

Candidates == 1..Len(results)

\* C1: speculative translation of a directive returns a non-null result exactly
\* when committing translation under the same symbol table and width does (a
\* fatal abort counting as not succeeding).
C1_SpeculativeIffCommitting ==
    Translated => (Succeeds(Under(1, TRUE)) <=> Succeeds(Under(1, FALSE)))

\* C2: without a filter, the committing translation that follows a successful
\* probe returns an expression: fassert( exp_new ) holds and no fatal case is
\* reached in it.
C2_CommitAfterProbeSucceeds ==
    Unfiltered =>
        \A k \in 1..Len(trace) : trace[k][1] = "commit" => trace[k][3] = "ok"

\* The parts of C3 that do not speak of absence: the result is that of the first
\* accepted candidate, nothing is tried after it, and the filter sees only
\* successful translations.
C3_FirstAccepted ==
    Filtered =>
        /\ ret.out = "expr" =>
              /\ Accepted(idx)
              /\ \A j \in 1..(idx - 1) : ~Accepted(j)
              /\ ret.val = Under(idx, FALSE).val
        /\ \A k \in 1..Len(trace) :
              /\ trace[k][2] <= idx
              /\ trace[k][1] = "filter" =>
                    /\ k > 1
                    /\ trace[k - 1] = <<"commit", trace[k][2], "ok">>
                    /\ Succeeds(Under(trace[k][2], FALSE))

\* C3 as stated: with a filter, transform returns the translation under the first
\* candidate whose translation succeeds and passes the filter, tries no later
\* candidate, filters only successful translations, and returns absence exactly
\* when no candidate is accepted.
C3_Original ==
    /\ C3_FirstAccepted
    /\ Filtered => (ret.out = "absent" <=> \A i \in Candidates : ~Accepted(i))

\* C3 amended: as stated, but transform returns absence exactly when no
\* candidate is accepted and no candidate's translation reaches a fatal case; a
\* fatal case before the first accepted candidate ends the call in the fatal
\* outcome.
C3_FilteredPath ==
    /\ C3_FirstAccepted
    /\ Filtered =>
          /\ ret.out = "absent" <=>
                \A i \in Candidates : ~Accepted(i) /\ Under(i, FALSE).out # "fatal"
          /\ ret.out = "fatal" =>
                /\ Under(idx, FALSE).out = "fatal"
                /\ \A j \in 1..(idx - 1) : ~Accepted(j)

C3_Witness ==
    /\ Filtered
    /\ ret.out = "expr"
    /\ idx = 2
    /\ <<"filter", 1, "reject">> \in {trace[k] : k \in 1..Len(trace)}

\* C4: the dummy sentinel is not, and is not a subterm of, an expression that
\* transform or a committing translate call returns; a committing call makes no
\* speculative call.
C4_NoSentinel ==
    /\ (pc = "done" \/ Committing) /\ ret.out = "expr" =>
          dummy_expression \notin Subterms(ret.val)
    /\ Committing => \A c \in last.calls : c[2] = FALSE
    /\ pc \in {"filtered", "done"} /\ Len(trace) > 0 /\ trace[Len(trace)][1] = "commit" =>
          \A c \in last.calls : c[2] = FALSE

C4_Witness ==
    /\ Unfiltered
    /\ ret.out = "expr"
    /\ ret.val.k = "op"
    /\ \E k \in 1..Len(trace) : trace[k] = <<"probe", idx, "ok">>

\* The condition of a conditional, translated non-speculatively and simplified,
\* is a known constant other than zero.
ConditionTrue(c) == Succeeds(c) /\ get(Fold(c.val)) \notin {Unknown, 0}

\* C5: translating conditional(C, R) in either mode returns the translation of R
\* under the caller's flag when C, translated non-speculatively and simplified,
\* is a constant true, and returns absence without translating R when C fails to
\* translate or is anything else; the guarded cast rule with a non-constant
\* width yields absence from transform, with or without a filter.
C5_Conditional ==
    /\ Translated /\ to.op = "iff" =>
          LET c == Child(to.l, "l", FALSE)
              r == Child(to.r, "r", Speculative)
          IN /\ ConditionTrue(c) => last.out = r.out /\ last.val = r.val
             /\ Fails(c) \/ (Succeeds(c) /\ ~ConditionTrue(c)) =>
                   /\ last.out = "null"
                   /\ VisitedBelow(last.calls, "r") = {}
    /\ (pc = "done" /\ to = GuardedCast
        /\ \A i \in Candidates : get(heap[results[i]["w"]]) = Unknown) =>
          ret.out = "absent"

C5_Witness ==
    /\ pc = "done"
    /\ to = GuardedCast
    /\ Len(results) > 0
    /\ \A i \in Candidates : get(heap[results[i]["w"]]) = Unknown
    /\ ret.out = "absent"

\* C6: translating alternation(A, B) returns A's result whenever A translates,
\* without translating B; B's result only when A fails and B succeeds; absence
\* only when both fail.
C6_Alternation ==
    Translated /\ to.op = "or_also" =>
        LET a == Child(to.l, "l", Speculative)
            b == Child(to.r, "r", Speculative)
        IN /\ Succeeds(a) =>
                 /\ last.out = "ok"
                 /\ last.val = a.val
                 /\ VisitedBelow(last.calls, "r") = {}
           /\ (last.out = "ok" /\ VisitedBelow(last.calls, "r") # {}) =>
                 Fails(a) /\ Succeeds(b) /\ last.val = b.val
           /\ last.out = "null" => Fails(a) /\ Fails(b)
           /\ Fails(a) /\ Succeeds(b) => last.out = "ok" /\ last.val = b.val

C6_Witness ==
    /\ Translated
    /\ to.op = "or_also"
    /\ Succeeds(Child(to.l, "l", Speculative))
    /\ Succeeds(Child(to.r, "r", Speculative))
    /\ Child(to.l, "l", Speculative).val # Child(to.r, "r", Speculative).val
    /\ last.val = Child(to.l, "l", Speculative).val

\* C7: no step of a translate or transform call changes a node reachable from a
\* symbol table or from the input expression (nor the static dummy).
C7_Frame == [][heap' = heap]_vars

\* A committing cast of a bare pattern variable and a conditional on a bare
\* pattern variable have been translated.
C7_Witness ==
    /\ Committing
    /\ last.out = "ok"
    /\ to.op \in CastOps
    /\ to.l = DVar("x")
    /\ last.val # heap[results[1]["x"]]

\* The candidate of the most recent translate call.
LastSym == results[trace[Len(trace)][2]]

\* A visited position where translate reaches a fatal case.
FatalCase(c) ==
    LET d == DirAt(to, c[1])
    IN \/ d.op \in {"unreachable", "bad"}
       \/ /\ d.op \in CastOps
          /\ c[2] = FALSE
          /\ Succeeds(translate(heap, LastSym, d.l, bit_cnt, FALSE, <<>>))
          /\ Succeeds(translate(heap, LastSym, d.r, bit_cnt, FALSE, <<>>))
          /\ get(translate(heap, LastSym, d.r, bit_cnt, FALSE, <<>>).val) = Unknown

\* C8: a translate call that reaches a fatal case ends fatally, and so does the
\* transform around it: the fatal case is not turned into absence, an enclosing
\* alternation does not try its other branch, and the loop tries no further
\* candidate.
C8_FatalPropagates ==
    /\ (last # NoCall /\ \E c \in last.calls : FatalCase(c)) => last.out = "fatal"
    /\ \A k \in 1..Len(trace) :
          trace[k][3] = "fatal" =>
              /\ k = Len(trace)
              /\ pc \in {"done", "translated"}
              /\ ret.out = "fatal"

C8_Witness ==
    /\ pc = "done"
    /\ ret.out = "fatal"
    /\ idx < Len(results)
    /\ to.op = "or_also"
    /\ to.l.op = "unreachable"
    /\ Succeeds(translate(heap, results[idx], to.r, bit_cnt, FALSE, <<>>))

\* C9 as stated: a speculative translate call constructs no expression node and
\* invokes no simplifier, whatever directive shapes it visits.
C9_Original == Speculative => last.made = 0 /\ last.simp = 0

\* Shapes at which a speculative call neither constructs nor simplifies.
Inert(d) ==
    \/ d.op = "invalid" /\ d.id # ""
    \/ d.op \in ExprOps \cup {"try_simplify", "or_also", "warning", "unreachable", "bad"}

\* C9 amended: a speculative translate call constructs no expression node and
\* invokes no simplifier when the directives it visits are pattern variables,
\* arithmetic operators, try-simplify, alternation and warning; literal
\* constants and mask directives construct a constant, and sequence-simplify
\* and the condition of a conditional are translated for real and simplified.
C9_SpeculativeBuildsNothing ==
    Speculative /\ (\A c \in last.calls : Inert(DirAt(to, c[1]))) =>
        last.made = 0 /\ last.simp = 0

C9_Witness ==
    /\ Speculative
    /\ to.op = "try_simplify"
    /\ to.r.op \in ExprOps
    /\ last.out = "ok"
    /\ last.ref = "dummy"
    /\ \A c \in last.calls : Inert(DirAt(to, c[1]))

\* C10: without a filter, transform returns the committing translation under the
\* first candidate whose probe succeeds, probes and translates no later
\* candidate, translates at most once, and returns absence exactly when there is
\* no candidate (translate is then never called) or every probe fails.
C10_UnfilteredPath ==
    Unfiltered =>
        /\ ret.out = "expr" =>
              /\ Succeeds(Under(idx, TRUE))
              /\ \A j \in 1..(idx - 1) : Fails(Under(j, TRUE))
              /\ ret.val = Under(idx, FALSE).val
        /\ \A k \in 1..Len(trace) : trace[k][2] <= idx
        /\ Cardinality({k \in 1..Len(trace) : trace[k][1] = "commit"}) <= 1
        /\ ret.out = "absent" <=> \A i \in Candidates : Fails(Under(i, TRUE))
        /\ Len(results) = 0 => trace = <<>> /\ last = NoCall

C10_Witness ==
    /\ Unfiltered
    /\ ret.out = "expr"
    /\ idx = 2
    /\ trace = <<<<"probe", 1, "null">>, <<"probe", 2, "ok">>, <<"commit", 2, "ok">>>>

=============================================================================
